---- MODULE Spec2Model ----
(***************************************************************************)
(* Model of djt-pas-http-client: ApiClientFactory (the process-wide        *)
(* namespace config cache and the version gate) and CrudClient (endpoint   *)
(* derivation, the CRUD verbs and response normalisation).                 *)
(*                                                                         *)
(* JavaScript strings that the code takes apart or concatenates (URLs,     *)
(* namespaces, entities, path segments, object keys) are sequences of      *)
(* one-character strings.  Strings the code only passes along (error       *)
(* messages, version names) are atomic.                                    *)
(*                                                                         *)
(* Specifications: Spec (calls that overlap), SpecSeq (calls made one      *)
(* after another, with the widest choice of calls and response bodies),   *)
(* SpecOwned (one caller that passes the same array again), SpecFair       *)
(* (overlapping calls, every request answered) and SpecPath (endpoint      *)
(* derivation applied on its own).                                         *)
(***************************************************************************)
EXTENDS Integers, Sequences, FiniteSets, TLC

(***************************************************************************)
(* Characters and strings                                                  *)
(***************************************************************************)
UpperChars == <<"A","B","C","D","E","F","G","H","I","J","K","L","M",
                "N","O","P","Q","R","S","T","U","V","W","X","Y","Z">>

LowerChars == <<"a","b","c","d","e","f","g","h","i","j","k","l","m",
                "n","o","p","q","r","s","t","u","v","w","x","y","z">>

DigitChars == <<"0","1","2","3","4","5","6","7","8","9">>

Range(s) == { s[i] : i \in DOMAIN s }

UpperSet == Range(UpperChars)

LowerOrDigitSet == Range(LowerChars) \cup Range(DigitChars)

\* [A-Z]
IsUpper(c) == c \in UpperSet

\* [a-z0-9]
IsLowerOrDigit(c) == c \in LowerOrDigitSet

\* String.prototype.toLowerCase on one character
LowerChar(c) ==
    IF IsUpper(c)
    THEN LowerChars[CHOOSE i \in DOMAIN UpperChars : UpperChars[i] = c]
    ELSE c

\* String.prototype.toLowerCase
toLowerCase(s) == [i \in DOMAIN s |-> LowerChar(s[i])]

\* String.prototype.endsWith / startsWith for a one-character needle
endsWith(s, c) == Len(s) > 0 /\ s[Len(s)] = c

startsWith(s, c) == Len(s) > 0 /\ s[1] = c

\* String.prototype.slice(1)
slice1(s) == IF Len(s) = 0 THEN s ELSE SubSeq(s, 2, Len(s))

RECURSIVE Flatten(_)
\* concatenation of a sequence of strings
Flatten(ss) == IF ss = <<>> THEN <<>> ELSE Head(ss) \o Flatten(Tail(ss))

RECURSIVE join(_, _)
\* Array.prototype.join(sep)
join(ss, sep) ==
    IF ss = <<>> THEN <<>>
    ELSE IF Len(ss) = 1 THEN ss[1]
    ELSE ss[1] \o sep \o join(Tail(ss), sep)

\* characters encodeURIComponent leaves alone besides letters and digits
UriUnreservedMarks == {"-", "_", ".", "!", "~", "*", "'", "(", ")"}

\* the percent escapes of the reserved ASCII characters the model uses
PercentEscape(c) ==
    CASE c = "/" -> <<"%","2","F">>
      [] c = ":" -> <<"%","3","A">>
      [] c = "%" -> <<"%","2","5">>
      [] c = " " -> <<"%","2","0">>
      [] c = "?" -> <<"%","3","F">>
      [] c = "#" -> <<"%","2","3">>

EncodeChar(c) ==
    IF IsUpper(c) \/ IsLowerOrDigit(c) \/ c \in UriUnreservedMarks
    THEN <<c>>
    ELSE PercentEscape(c)

\* the global encodeURIComponent
encodeURIComponent(s) == Flatten([i \in DOMAIN s |-> EncodeChar(s[i])])

(***************************************************************************)
(* JavaScript values                                                       *)
(***************************************************************************)
Undefined == [t |-> "undefined"]

Null == [t |-> "null"]

Bool(b) == [t |-> "boolean", v |-> b]

Str(s) == [t |-> "string", v |-> s]

Num(n) == [t |-> "number", v |-> n]

\* a plain object: its own enumerable keys and their values
Obj(f) == [t |-> "object", f |-> f]

\* the empty object literal { }
EmptyObj == Obj(<<>>)

\* an array
Arr(a) == [t |-> "array", a |-> a]

\* an instance of Error (or of a subclass cls); message and code are JavaScript values
Err(cls, message, code) ==
    [t |-> "Error", cls |-> cls, message |-> message, code |-> code]

\* a function object (only met as a property inherited from Object.prototype)
Func(name) == [t |-> "function", name |-> name]

\* what a call ends with
Return(v) == [kind |-> "return", value |-> v]

Throw(v) == [kind |-> "throw", value |-> v]

\* the engine's TypeError (reading a property of undefined or null, `in` on a primitive)
TypeError == Err("TypeError", Str("TypeError"), Undefined)

PrimitiveTypes == {"undefined", "null", "boolean", "string", "number"}

\* typeof v == 'boolean'
IsBoolean(v) == v.t = "boolean"

\* v instanceof Error
IsError(v) == v.t = "Error"

\* a === b for the operands the code compares: a primitive only equals the same
\* primitive; two distinct objects are never identical
StrictEquals(a, b) == a.t \in PrimitiveTypes /\ a.t = b.t /\ a = b

\* Object.keys(v) of a non-primitive
ObjectKeys(v) == IF v.t = "object" THEN DOMAIN v.f ELSE {}

\* `k in v` for a non-primitive v and a key k no prototype defines
HasKey(k, v) == v.t = "object" /\ k \in DOMAIN v.f

\* v.k where v is neither undefined nor null
GetProp(v, k) == IF HasKey(k, v) THEN v.f[k] ELSE Undefined

\* whether evaluating v.k throws a TypeError
PropThrows(v) == v.t \in {"undefined", "null"}

\* the object keys the code names
K_error == <<"e","r","r","o","r">>

K_message == <<"m","e","s","s","a","g","e">>

K_success == <<"s","u","c","c","e","s","s">>

K_version_supported ==
    <<"v","e","r","s","i","o","n","_","s","u","p","p","o","r","t","e","d">>

K_version_suffix == <<"_","v","e","r","s","i","o","n">>

(***************************************************************************)
(* ApiClientFactory: construction and createClient                         *)
(***************************************************************************)
API_CONFIG_REQUEST_TIMEOUT == 5

DEFAULT_TIMEOUT == 30

\* new HttpJsonClient(url, timeout)
HttpJsonClient(url, timeout) ==
    [t |-> "HttpJsonClient", url |-> url, timeout |-> timeout]

NoClient == HttpJsonClient(<<>>, 0)

\* new ApiClientFactory(apiBaseUrl, apiNamespace, requestedVersion, timeout);
\* requestedVersion and timeout are JavaScript values, Undefined when left out
ApiClientFactory(apiBaseUrl, apiNamespace, requestedVersion, timeout) ==
    [ apiBaseUrl       |-> IF ~endsWith(apiBaseUrl, "/")
                           THEN apiBaseUrl \o <<"/">>
                           ELSE apiBaseUrl,
      apiNamespace     |-> encodeURIComponent(apiNamespace),
      requestedVersion |-> requestedVersion,
      timeout          |-> IF timeout = Undefined THEN DEFAULT_TIMEOUT ELSE timeout.v ]

\* variant of createClient: the leading '/' is kept
createClientKeepingSlash(factory, endpointPath) ==
    HttpJsonClient(factory.apiBaseUrl \o endpointPath, factory.timeout)

\* ApiClientFactory.createClient
createClient(factory, endpointPath) ==
    LET path == IF startsWith(endpointPath, "/") THEN slice1(endpointPath)
                ELSE endpointPath
    IN  HttpJsonClient(factory.apiBaseUrl \o path, factory.timeout)

\* the URL getConfig() fetches from
ConfigUrl(factory) ==
    factory.apiBaseUrl
        \o <<".","w","e","l","l","-","k","n","o","w","n","/","p","a","s","-">>
        \o factory.apiNamespace
        \o <<"-","a","p","i","/","c","o","n","f","i","g">>

(***************************************************************************)
(* CrudClient: construction, endpoint derivation, response normalisation   *)
(***************************************************************************)
CrudNamespace == <<"c","r","u","d">>

\* new CrudClient(apiBaseUrl, entity, requestedVersion, timeout)
CrudClient(apiBaseUrl, entity, requestedVersion, timeout) ==
    [ entity           |-> encodeURIComponent(entity),
      apiClientFactory |-> ApiClientFactory(apiBaseUrl, CrudNamespace,
                                            requestedVersion, timeout) ]

\* /([A-Z]+|[a-z0-9])([A-Z])(?!$)/ tried at index i: the index of group 2, or 0
\* when there is no match at i.  The first alternative is greedy: the longest
\* run of capitals that still leaves a capital, not the last character, after it.
MatchAt(s, i) ==
    LET Ks == { k \in 1..(Len(s) - i) :
                  /\ \A j \in i..(i + k - 1) : IsUpper(s[j])
                  /\ IsUpper(s[i + k])
                  /\ i + k < Len(s) }
    IN  IF Ks # {}
        THEN i + (CHOOSE k \in Ks : \A m \in Ks : m <= k)
        ELSE IF /\ IsLowerOrDigit(s[i])
                /\ i + 1 < Len(s)
                /\ IsUpper(s[i + 1])
        THEN i + 1
        ELSE 0

RECURSIVE ReplaceEveryFrom(_, _)
\* variant of ReplaceFirst: the expression with the g flag, every match replaced
ReplaceEveryFrom(s, from) ==
    LET starts == { i \in from..Len(s) : MatchAt(s, i) # 0 }
    IN  IF starts = {} THEN SubSeq(s, from, Len(s))
        ELSE LET i == CHOOSE x \in starts : \A y \in starts : x <= y
                 p == MatchAt(s, i)
             IN  SubSeq(s, from, p - 1) \o <<"_", s[p]>> \o ReplaceEveryFrom(s, p + 1)

ReplaceEvery(s) == ReplaceEveryFrom(s, 1)

\* path.replace(/([A-Z]+|[a-z0-9])([A-Z])(?!$)/, '$1_$2'): no g flag, so only
\* the leftmost match is replaced
ReplaceFirst(s) ==
    LET starts == { i \in 1..Len(s) : MatchAt(s, i) # 0 }
    IN  IF starts = {} THEN s
        ELSE LET i == CHOOSE x \in starts : \A y \in starts : x <= y
                 p == MatchAt(s, i)
             IN  SubSeq(s, 1, p - 1) \o <<"_">> \o SubSeq(s, p, Len(s))

\* the callback of subPath.map
SnakeSegment(path) == toLowerCase(ReplaceFirst(path))

\* a sub-path argument: left out, one string, or an array of strings
NoSubPath == [t |-> "undefined", a |-> <<>>]

StrSubPath(s) == [t |-> "string", a |-> <<s>>]

ArrSubPath(a) == [t |-> "array", a |-> a]

\* a sub-path argument that is an array the caller keeps and passes again
OwnedSubPath == [t |-> "owned", a |-> <<>>]

\* the array getEndpointFromSubPath works on once the entity is unshifted into it:
\* the argument itself when the caller passed an array, a new array otherwise
SubPathWithEntity(entity, subPath) == <<entity>> \o subPath.a

PathPrefix == << <<"a","p","i","s">>, <<"p","a","s">>, <<"c","r","u","d">> >>

\* CrudClient.getEndpointFromSubPath
getEndpointFromSubPath(client, subPath) ==
    LET withEntity == SubPathWithEntity(client.entity, subPath)
        mapped     == [i \in DOMAIN withEntity |-> SnakeSegment(withEntity[i])]
    IN  join(PathPrefix \o mapped, <<"/">>)

\* new Exception(message, code) of djt-app
Exception(message, code) == Err("Exception", message, Str(code))

\* CrudClient.handleResponse
handleResponse(response) ==
    LET body == response.body
    IN  IF IsError(body) THEN Throw(body)
        ELSE IF body.t \in PrimitiveTypes THEN Throw(TypeError)
        ELSE IF HasKey(K_error, body) /\ Cardinality(ObjectKeys(body)) = 1
        THEN IF PropThrows(GetProp(body, K_error)) THEN Throw(TypeError)
             ELSE Throw(Exception(GetProp(GetProp(body, K_error), K_message),
                                  "CRUD_ERROR"))
        ELSE Return(body)

\* variant of UnwrapSuccess: `success` is unwrapped whatever its type
UnwrapSuccessOfAnyType(ret) ==
    IF HasKey(K_success, ret) THEN GetProp(ret, K_success) ELSE ret

\* the tail of CrudClient.isValid: unwrap a boolean `success`
UnwrapSuccess(ret) ==
    IF HasKey(K_success, ret) /\ IsBoolean(GetProp(ret, K_success))
    THEN GetProp(ret, K_success)
    ELSE ret

(***************************************************************************)
(* The process: instances, calls in flight, the process-wide cache         *)
(***************************************************************************)
\* how many calls the process makes when calls overlap
MaxCalls == 2

\* keys every object literal inherits from Object.prototype, which `in` finds
ObjectPrototypeKeys ==
    { <<"v","a","l","u","e","O","f">>,
      <<"t","o","S","t","r","i","n","g">>,
      <<"c","o","n","s","t","r","u","c","t","o","r">> }

\* the instances of the process: two CrudClients on the shared namespace 'crud'
\* with different base URLs and versions, and two bare factories
Instances ==
    << CrudClient(<<"h","t","t","p",":","/","/","a","p","i",".","e","x","a","m","p","l","e",".","c","o","m">>, <<"o","r","d","e","r">>, Undefined, Undefined),
       CrudClient(<<"h","t","t","p",":","/","/","x","/">>, <<"U","s","e","r","A","c","c","o","u","n","t">>, Str("v1"), Num(10)),
       [ entity |-> <<>>,
         apiClientFactory |-> ApiClientFactory(<<"h","t","t","p",":","/","/","x">>, <<"a","/","b">>, Str("v1"), Undefined) ],
       [ entity |-> <<>>,
         apiClientFactory |-> ApiClientFactory(<<"h","t","t","p",":","/","/","x","/">>, <<"v","a","l","u","e","O","f">>, Undefined, Undefined) ] >>

\* the instances built by new CrudClient(...)
CrudInstances == {1, 2}

FactoryOps == {"getConfig", "isVersionSupported", "createVerifiedClient"}

CrudOps == {"create", "execute", "get", "update", "upsert", "isValid"}

\* variant of Verb: update calls requestPut
VerbUpdateAsPut(op) ==
    CASE op = "create"  -> "POST"
      [] op = "execute" -> "POST"
      [] op = "get"     -> "GET"
      [] op = "update"  -> "PUT"
      [] op = "upsert"  -> "PUT"
      [] op = "isValid" -> "HEAD"

\* the request method each CRUD operation calls on its transport client
Verb(op) ==
    CASE op = "create"  -> "POST"
      [] op = "execute" -> "POST"
      [] op = "get"     -> "GET"
      [] op = "update"  -> "PATCH"
      [] op = "upsert"  -> "PUT"
      [] op = "isValid" -> "HEAD"

K_limit == <<"l","i","m","i","t">>

K_extra == <<"e","x","t","r","a">>

SomeData == Obj(K_limit :> Num(10))

Input(op, subPath, data, endpointPath) ==
    [op |-> op, subPath |-> subPath, data |-> data, endpointPath |-> endpointPath]

EndpointPaths == { <<"/","f","o","o","/","b","a","r">>, <<"f","o","o","/","b","a","r">> }

\* the paths callers hand to createClient
ClientPaths == EndpointPaths \cup { <<"/","/","f","o","o">>, <<>> }

\* every call a caller may make on a CrudClient, and on a factory
Arguments ==
    { <<NoSubPath, SomeData>>,
      <<StrSubPath(<<"g","e","t","P","r","o","f","i","l","e">>), Undefined>>,
      <<ArrSubPath(<< <<"i","t","e","m","s">> >>), SomeData>>,
      <<ArrSubPath(<< <<"i","t","e","m","s">>, <<"g","e","t","P","r","o","f","i","l","e">> >>), Undefined>> }

AllCrudInputs ==
    { Input(op, args[1], args[2], <<>>) : op \in CrudOps, args \in Arguments }

AllFactoryInputs ==
    { Input(op, NoSubPath, Undefined, <<>>) : op \in {"getConfig", "isVersionSupported"} }
        \cup { Input("createVerifiedClient", NoSubPath, Undefined, ep) : ep \in EndpointPaths }

CreateClientInputs ==
    { Input("createClient", NoSubPath, Undefined, ep) : ep \in ClientPaths }

\* the caller-owned array as the caller built it, and how long it may grow
OwnedInitially == << <<"i","t","e","m","s">> >>

MaxOwnedLen == 3

\* the CrudClient whose caller keeps its sub-path array, and the calls it makes:
\* operations on that array, and one on an array literal
OwnedInstances == {2}

OwnedInputs ==
    { Input(op, OwnedSubPath, Undefined, <<>>) : op \in {"get", "create", "isValid"} }
        \cup { Input("get", ArrSubPath(OwnedInitially), SomeData, <<>>) }

\* the calls made one at a time
SeqInputsOf(i) ==
    (IF i \in CrudInstances THEN AllCrudInputs \cup AllFactoryInputs ELSE AllFactoryInputs)
        \cup CreateClientInputs

\* the calls made while calls overlap: every CRUD operation once
CrudInputs ==
    { Input("create",  NoSubPath, SomeData, <<>>),
      Input("execute", StrSubPath(<<"g","e","t","P","r","o","f","i","l","e">>), Undefined, <<>>),
      Input("get",     ArrSubPath(<< <<"i","t","e","m","s">> >>), SomeData, <<>>),
      Input("update",  ArrSubPath(<< <<"i","t","e","m","s">>, <<"g","e","t","P","r","o","f","i","l","e">> >>), Undefined, <<>>),
      Input("upsert",  NoSubPath, Undefined, <<>>),
      Input("isValid", StrSubPath(<<"g","e","t","P","r","o","f","i","l","e">>), SomeData, <<>>) }

InputsOf(i) ==
    CASE i = 1 -> CrudInputs
      [] i = 2 -> { in \in CrudInputs \cup AllFactoryInputs : in.op \in {"get", "getConfig"} }
      [] i = 3 -> { in \in AllFactoryInputs :
                      in.op = "getConfig" \/ in.endpointPath = <<"f","o","o","/","b","a","r">> }
      [] i = 4 -> { in \in AllFactoryInputs : in.op = "isVersionSupported" }

\* a transport error
NetError == Err("Error", Str("ECONNREFUSED"), Undefined)

\* what the transport answers a config request with while calls overlap
ConfigBodies ==
    { NetError,
      Obj(K_version_supported :> Str("v1")),
      EmptyObj }

\* ... and to calls made one at a time
SeqConfigBodies ==
    ConfigBodies \cup
    { Obj(K_version_supported :> Str("v2")),
      Obj(K_version_supported :> Null),
      Null }

\* what the transport answers a CRUD request with while calls overlap
CrudBodies ==
    { NetError,
      Obj(K_success :> Bool(TRUE)) }

\* ... and to calls made one at a time
SeqCrudBodies ==
    CrudBodies \cup
    { Obj(K_error :> Obj(K_message :> Str("bad"))),
      Obj(K_error :> Obj(K_message :> Str("bad")) @@ K_extra :> Num(1)),
      Obj(K_error :> Str("bad")),
      Obj(K_error :> Null),
      Obj(K_success :> Bool(FALSE)),
      Obj(K_success :> Str("yes")),
      Obj(K_success :> Bool(TRUE) @@ K_extra :> Num(1)),
      Obj(K_extra :> Num(1)),
      EmptyObj,
      Arr(<<Num(1)>>),
      Str("ok"),
      Num(1),
      Bool(TRUE),
      Null }

NoOutcome == [kind |-> "pending", value |-> Undefined]

\* a call not made yet.  subPath is the sub-path argument as it was when the
\* call was made, ownedArg whether it was the caller-owned array; endpointPath
\* is the argument of createVerifiedClient or createClient;
\* storedAtStart, configBody, crudBody, supported and log record what
\* happened; the code's own state is pc, config and the cache.
IdleCall ==
    [ pc |-> "idle", inst |-> 0, op |-> "none", subPath |-> NoSubPath,
      data |-> Undefined, endpointPath |-> <<>>, ownedArg |-> FALSE,
      storedAtStart |-> FALSE, config |-> Undefined, fetch |-> "none",
      configBody |-> Undefined, crudBody |-> Undefined,
      supported |-> NoOutcome, log |-> <<>>, outcome |-> NoOutcome ]

VARIABLES
    configs,    \* ApiClientFactory.configs: own keys (encoded namespaces) -> documents
    calls,      \* the calls made, each with the point it is suspended at
    owned,      \* the elements of the caller-owned sub-path array
    derivation  \* one application of getEndpointFromSubPath on its own

vars == <<configs, calls, owned, derivation>>

Calls == 1..MaxCalls

FactoryOf(c) == Instances[calls[c].inst].apiClientFactory

\* variant of NamespaceOf: the entry is stored per base URL and namespace
NamespaceOfPerBaseUrl(c) == FactoryOf(c).apiBaseUrl \o FactoryOf(c).apiNamespace

\* this.apiNamespace of the instance a call is made on
NamespaceOf(c) == FactoryOf(c).apiNamespace

\* variant of InConfigs: the cache test never succeeds
InConfigsNever(cfgs, ns) == FALSE

\* `this.apiNamespace in configs`
InConfigs(cfgs, ns) == ns \in DOMAIN cfgs \/ ns \in ObjectPrototypeKeys

\* variant of ReadConfigs: the read misses the entry
ReadConfigsStale(cfgs, ns) == Undefined

\* configs[this.apiNamespace]
ReadConfigs(cfgs, ns) ==
    IF ns \in DOMAIN cfgs THEN cfgs[ns]
    ELSE IF ns \in ObjectPrototypeKeys THEN Func(ns)
    ELSE Undefined

\* variant of WriteConfigs: an entry that exists is kept (the first write wins)
WriteConfigsIfAbsent(cfgs, ns, body) == cfgs @@ (ns :> body)

\* variant of WriteConfigs: the cache is replaced by one holding this entry only
WriteConfigsAlone(cfgs, ns, body) == (ns :> body)

\* configs[this.apiNamespace] = body
WriteConfigs(cfgs, ns, body) == (ns :> body) @@ cfgs

\* variant of ConfigRequest: the config client gets the instance's own timeout
ConfigRequestOwnTimeout(factory) ==
    LET client == HttpJsonClient(ConfigUrl(factory), factory.timeout)
    IN  IF factory.requestedVersion # Undefined
        THEN [ kind |-> "config", method |-> "POST", url |-> client.url,
               timeout |-> client.timeout,
               data |-> Obj((factory.apiNamespace \o K_version_suffix)
                               :> factory.requestedVersion) ]
        ELSE [ kind |-> "config", method |-> "GET", url |-> client.url,
               timeout |-> client.timeout, data |-> Undefined ]

\* the request getConfig() issues
ConfigRequest(factory) ==
    LET client == HttpJsonClient(ConfigUrl(factory), API_CONFIG_REQUEST_TIMEOUT)
    IN  IF factory.requestedVersion # Undefined
        THEN [ kind |-> "config", method |-> "POST", url |-> client.url,
               timeout |-> client.timeout,
               data |-> Obj((factory.apiNamespace \o K_version_suffix)
                               :> factory.requestedVersion) ]
        ELSE [ kind |-> "config", method |-> "GET", url |-> client.url,
               timeout |-> client.timeout, data |-> Undefined ]

\* variant of ConfigFailure: the error body is wrapped in a new Error
ConfigFailureWrapped(body) == Throw(Err("Error", Str("config fetch failed"), Undefined))

\* getConfig() on an error body: `throw result.body`
ConfigFailure(body) == Throw(body)

\* variant of VersionSupported: == instead of ===, so null equals undefined
VersionSupportedLoose(factory, config) ==
    IF PropThrows(config) THEN Throw(TypeError)
    ELSE LET a == GetProp(config, K_version_supported)
             b == factory.requestedVersion
         IN  Return(Bool(\/ StrictEquals(a, b)
                         \/ {a.t, b.t} \subseteq {"undefined", "null"}))

\* the callback of isVersionSupported
VersionSupported(factory, config) ==
    IF PropThrows(config) THEN Throw(TypeError)
    ELSE Return(Bool(StrictEquals(GetProp(config, K_version_supported),
                                  factory.requestedVersion)))

\* new Error('APP_VERSION_NOT_SUPPORTED')
VersionNotSupportedError == Err("Error", Str("APP_VERSION_NOT_SUPPORTED"), Undefined)

\* variant of VerifiedClient: the result of the version check is not tested
VerifiedClientUngated(factory, supported, endpointPath) ==
    IF supported.kind = "throw" THEN supported
    ELSE Return(createClient(factory, endpointPath))

\* ApiClientFactory.createVerifiedClient once isVersionSupported has settled
VerifiedClient(factory, supported, endpointPath) ==
    IF supported.kind = "throw" THEN supported
    ELSE IF ~supported.value.v THEN Throw(VersionNotSupportedError)
    ELSE Return(createClient(factory, endpointPath))

\* the request a CRUD operation issues on its verified client
CrudRequest(client, op, data) ==
    [ kind |-> "crud", method |-> Verb(op), url |-> client.url,
      timeout |-> client.timeout, data |-> data ]

\* the sub-paths callers pass
SubPathsUsed == { args[1] : args \in Arguments }

\* getEndpointFromSubPath of every CrudClient on every sub-path, derived once
CrudEndpoints ==
    [i \in CrudInstances |->
        [sp \in SubPathsUsed |-> getEndpointFromSubPath(Instances[i], sp)]]

\* the sub-path argument a call passes, as it is when the call is made
ArgumentOf(in, array) ==
    IF in.subPath = OwnedSubPath THEN ArrSubPath(array) ELSE in.subPath

\* the path a call hands to createVerifiedClient: a CRUD operation derives it
\* from its sub-path before anything is awaited
EndpointOf(i, in, array) ==
    IF in.op \notin CrudOps THEN in.endpointPath
    ELSE IF in.subPath = OwnedSubPath
    THEN getEndpointFromSubPath(Instances[i], ArrSubPath(array))
    ELSE CrudEndpoints[i][in.subPath]

\* the caller-owned array after the call: `subPath.unshift(this.entity)` acts
\* on the array the caller passed
OwnedAfter(i, in, array) ==
    IF in.op \in CrudOps /\ in.subPath = OwnedSubPath
    THEN SubPathWithEntity(Instances[i].entity, ArrSubPath(array))
    ELSE array

\* no application of getEndpointFromSubPath on its own
NoDerivation ==
    [ entity |-> <<>>, subPath |-> NoSubPath, done |-> FALSE, endpoint |-> <<>> ]

Init ==
    /\ configs = <<>>
    /\ calls = [c \in Calls |-> IdleCall]
    /\ owned = OwnedInitially
    /\ derivation = NoDerivation

\* The synchronous part of a call, up to its first await: a CRUD operation
\* derives its endpoint; createClient returns at once; getConfig() tests the
\* cache and either returns the cached document or issues the config request.
Begin(c, i, in) ==
    LET factory == Instances[i].apiClientFactory
        ns      == factory.apiNamespace
        call    == [ IdleCall EXCEPT !.inst = i, !.op = in.op,
                        !.subPath = ArgumentOf(in, owned), !.data = in.data,
                        !.ownedArg = (in.subPath = OwnedSubPath),
                        !.endpointPath = EndpointOf(i, in, owned),
                        !.storedAtStart = (ns \in DOMAIN configs) ]
    IN  /\ in.subPath = OwnedSubPath => Len(owned) < MaxOwnedLen
        /\ calls' = [calls EXCEPT ![c] =
              IF in.op = "createClient"
              THEN [call EXCEPT !.pc = "done",
                                !.outcome = Return(createClient(factory, in.endpointPath))]
              ELSE IF InConfigs(configs, ns)
              THEN [call EXCEPT !.pc = "gotConfig",
                                !.config = ReadConfigs(configs, ns)]
              ELSE [call EXCEPT !.pc = "awaitConfig", !.fetch = "pending",
                                !.log = <<ConfigRequest(factory)>>] ]
        /\ owned' = OwnedAfter(i, in, owned)
        /\ UNCHANGED <<configs, derivation>>

\* A caller makes a call while earlier calls may still be pending.
Start(c, i, in) ==
    /\ calls[c].pc = "idle"
    /\ \A b \in Calls : b < c => calls[b].pc # "idle"
    /\ Begin(c, i, in)

\* A caller that awaited its previous call makes the next one.
StartNext(c, i, in) ==
    /\ calls[c].pc \in {"idle", "done"}
    /\ Begin(c, i, in)

\* variant of ConfigResponse: a config request answered with an error value is
\* issued again
ConfigResponseRetrying(c, body) ==
    LET ns == NamespaceOf(c)
    IN  /\ calls[c].pc = "awaitConfig"
        /\ Len(calls[c].log) < 3
        /\ IF IsError(body)
           THEN /\ calls' = [calls EXCEPT ![c].configBody = body,
                                          ![c].log = Append(calls[c].log,
                                                            ConfigRequest(FactoryOf(c)))]
                /\ UNCHANGED configs
           ELSE /\ configs' = WriteConfigs(configs, ns, body)
                /\ calls' = [calls EXCEPT ![c].pc = "gotConfig",
                                          ![c].fetch = "ok",
                                          ![c].configBody = body,
                                          ![c].config = ReadConfigs(configs', ns)]
        /\ UNCHANGED <<owned, derivation>>

\* The transport answers a config request and getConfig() resumes.
ConfigResponse(c, body) ==
    LET ns == NamespaceOf(c)
    IN  /\ calls[c].pc = "awaitConfig"
        /\ IF IsError(body)
           THEN /\ calls' = [calls EXCEPT ![c].pc = "done",
                                          ![c].fetch = "failed",
                                          ![c].configBody = body,
                                          ![c].outcome = ConfigFailure(body)]
                /\ UNCHANGED configs
           ELSE /\ configs' = WriteConfigs(configs, ns, body)
                /\ calls' = [calls EXCEPT ![c].pc = "gotConfig",
                                          ![c].fetch = "ok",
                                          ![c].configBody = body,
                                          ![c].config = ReadConfigs(configs', ns)]
        /\ UNCHANGED <<owned, derivation>>

\* getConfig() called directly: its promise resolves with the document.
ResolveGetConfig(c) ==
    /\ calls[c].pc = "gotConfig"
    /\ calls[c].op = "getConfig"
    /\ calls' = [calls EXCEPT ![c].pc = "done",
                              ![c].outcome = Return(calls[c].config)]
    /\ UNCHANGED <<configs, owned, derivation>>

\* isVersionSupported read directly: the comparison's result (or its TypeError).
ResolveIsVersionSupported(c) ==
    LET supported == VersionSupported(FactoryOf(c), calls[c].config)
    IN  /\ calls[c].pc = "gotConfig"
        /\ calls[c].op = "isVersionSupported"
        /\ calls' = [calls EXCEPT ![c].pc = "done",
                                  ![c].supported = supported,
                                  ![c].outcome = supported]
        /\ UNCHANGED <<configs, owned, derivation>>

\* createVerifiedClient resumes after `await this.isVersionSupported`; a CRUD
\* operation then issues its one request on the client it got.
Verify(c) ==
    LET call      == calls[c]
        supported == VersionSupported(FactoryOf(c), call.config)
        verified  == VerifiedClient(FactoryOf(c), supported, call.endpointPath)
    IN  /\ call.pc = "gotConfig"
        /\ call.op \in CrudOps \cup {"createVerifiedClient"}
        /\ calls' = [calls EXCEPT ![c] =
              IF verified.kind = "throw" \/ call.op = "createVerifiedClient"
              THEN [call EXCEPT !.pc = "done", !.supported = supported,
                                !.outcome = verified]
              ELSE [call EXCEPT !.pc = "awaitCrud", !.supported = supported,
                                !.log = Append(call.log,
                                     CrudRequest(verified.value, call.op, call.data))] ]
        /\ UNCHANGED <<configs, owned, derivation>>

\* what a CRUD operation makes of the response to its request
CrudResult(op, body) ==
    LET handled == handleResponse([body |-> body])
    IN  IF op = "isValid" /\ handled.kind = "return"
        THEN Return(UnwrapSuccess(handled.value))
        ELSE handled

\* The transport answers a CRUD request and the operation completes.
CrudResponse(c, body) ==
    /\ calls[c].pc = "awaitCrud"
    /\ calls' = [calls EXCEPT ![c].pc = "done",
                              ![c].crudBody = body,
                              ![c].outcome = CrudResult(calls[c].op, body)]
    /\ UNCHANGED <<configs, owned, derivation>>

\* calls that may overlap in any way
Next ==
    \/ \E c \in Calls, i \in DOMAIN Instances : \E in \in InputsOf(i) : Start(c, i, in)
    \/ \E c \in Calls, body \in ConfigBodies : ConfigResponse(c, body)
    \/ \E c \in Calls : ResolveGetConfig(c)
    \/ \E c \in Calls : ResolveIsVersionSupported(c)
    \/ \E c \in Calls : Verify(c)
    \/ \E c \in Calls, body \in CrudBodies : CrudResponse(c, body)

Spec == Init /\ [][Next]_vars

\* what call c does next once it has been made: the transport's answer to the
\* request it awaits, or the continuation of its promise chain
Progress(c) ==
    \/ \E body \in ConfigBodies : ConfigResponse(c, body)
    \/ ResolveGetConfig(c)
    \/ ResolveIsVersionSupported(c)
    \/ Verify(c)
    \/ \E body \in CrudBodies : CrudResponse(c, body)

\* one call of each kind per instance: a CRUD operation, getConfig(),
\* createVerifiedClient and isVersionSupported
FairInputsOf(i) ==
    CASE i = 1 -> { in \in CrudInputs : in.op = "get" }
      [] i = 2 -> { in \in AllFactoryInputs : in.op = "getConfig" }
      [] i = 3 -> { in \in AllFactoryInputs :
                      in.endpointPath = <<"f","o","o","/","b","a","r">> }
      [] i = 4 -> { in \in AllFactoryInputs : in.op = "isVersionSupported" }

NextFair ==
    \/ \E c \in Calls, i \in DOMAIN Instances : \E in \in FairInputsOf(i) : Start(c, i, in)
    \/ \E c \in Calls : Progress(c)

\* overlapping calls with a transport that answers every request and an event
\* loop that runs every continuation that is ready
SpecFair == Init /\ [][NextFair]_vars /\ \A c \in Calls : WF_vars(Progress(c))

\* calls made one after another, each awaited before the next starts
NextSeq ==
    \/ \E i \in DOMAIN Instances : \E in \in SeqInputsOf(i) : StartNext(1, i, in)
    \/ \E body \in SeqConfigBodies : ConfigResponse(1, body)
    \/ ResolveGetConfig(1)
    \/ ResolveIsVersionSupported(1)
    \/ Verify(1)
    \/ \E body \in SeqCrudBodies : CrudResponse(1, body)

SpecSeq == Init /\ [][NextSeq]_vars

\* one caller of one CrudClient that keeps its sub-path array between calls
NextOwned ==
    \/ \E i \in OwnedInstances : \E in \in OwnedInputs : StartNext(1, i, in)
    \/ \E body \in ConfigBodies : ConfigResponse(1, body)
    \/ Verify(1)
    \/ \E body \in CrudBodies : CrudResponse(1, body)

SpecOwned == Init /\ [][NextOwned]_vars

\* the entities CrudClients are built with and the sub-paths given to
\* getEndpointFromSubPath when it is applied on its own
PathEntities ==
    { <<"U","s","e","r","A","c","c","o","u","n","t">>,
      <<"o","r","d","e","r">>,
      <<"H","T","T","P","S","e","r","v","e","r">>,
      <<"g","e","t","U","s","e","r","P","r","o","f","i","l","e">>,
      <<"A","B","C">>,
      <<"A","B">>,
      <<"a","B">>,
      <<"a","/","b">>,
      <<"x","1","Y","2","z">>,
      <<"O","r","d","e","r">> }

PathSubPaths ==
    { NoSubPath,
      StrSubPath(<<"g","e","t","P","r","o","f","i","l","e">>),
      StrSubPath(<<>>),
      StrSubPath(<<"A","B","C","d">>),
      ArrSubPath(<<>>),
      ArrSubPath(<< <<"g","e","t","P","r","o","f","i","l","e">> >>),
      ArrSubPath(<< <<"i","t","e","m","s">>, <<"g","e","t","P","r","o","f","i","l","e">> >>),
      ArrSubPath(<< <<"H","T","T","P","S","e","r","v","e","r">>, <<"a","B">>, <<"g","e","t","U","s","e","r","P","r","o","f","i","l","e">> >>),
      ArrSubPath(<< <<"x","1","Y","2","z">>, <<"A","B">> >>) }

InitPath ==
    /\ configs = <<>>
    /\ calls = [c \in Calls |-> IdleCall]
    /\ owned = OwnedInitially
    /\ derivation \in { [NoDerivation EXCEPT !.entity = e, !.subPath = sp] :
                            e \in PathEntities, sp \in PathSubPaths }

\* getEndpointFromSubPath(subPath) of new CrudClient('http://x', entity)
Derive ==
    /\ ~derivation.done
    /\ derivation' =
           [derivation EXCEPT
               !.done = TRUE,
               !.endpoint = getEndpointFromSubPath(
                                CrudClient(<<"h","t","t","p",":","/","/","x">>, derivation.entity,
                                           Undefined, Undefined),
                                derivation.subPath)]
    /\ UNCHANGED <<configs, calls, owned>>

NextPath == Derive

SpecPath == InitPath /\ [][NextPath]_vars

(***************************************************************************)
(* Properties                                                              *)
(***************************************************************************)
HasRequest(c, kind) == \E k \in DOMAIN calls[c].log : calls[c].log[k].kind = kind

\* C1: with calls made one after another, a call that starts when a config is
\* stored for its namespace starts no fetch, and getConfig() returns the
\* stored document.
C1_CachedCallDoesNotFetch ==
    \A c \in Calls :
        calls[c].pc # "idle" /\ calls[c].storedAtStart =>
            /\ calls[c].fetch = "none"
            /\ ~HasRequest(c, "config")
            /\ calls[c].op = "getConfig" /\ calls[c].pc = "done" =>
                   calls[c].outcome = Return(configs[NamespaceOf(c)])

C1_Witness ==
    \E c \in Calls :
        /\ calls[c].op = "getConfig"
        /\ calls[c].storedAtStart
        /\ calls[c].pc = "done"
        /\ calls[c].outcome.kind = "return"
        /\ calls[c].outcome.value = Obj(K_version_supported :> Str("v1"))

\* C2: under any interleaving at most one config fetch is in flight per
\* namespace, and at most one fetch per namespace ever succeeds.
C2_AtMostOneFetchPerNamespace ==
    \A c, d \in Calls :
        /\ c # d
        /\ calls[c].pc # "idle" /\ calls[d].pc # "idle"
        /\ NamespaceOf(c) = NamespaceOf(d)
        => /\ ~(calls[c].fetch = "pending" /\ calls[d].fetch = "pending")
           /\ ~(calls[c].fetch = "ok" /\ calls[d].fetch = "ok")

\* C3: an entry of the cache is never removed and never replaced by a
\* different document.
C3_CacheStable ==
    [][\A ns \in DOMAIN configs :
           ns \in DOMAIN configs' /\ configs'[ns] = configs[ns]]_vars
\* C4: a CRUD call issues its CRUD request only once the 'crud' config has
\* been obtained (cached at the start, or fetched by the call) and the version
\* check on that config gave true; a call whose fetch failed or whose check
\* did not give true has failed and has issued no CRUD request.
C4_VersionGate ==
    \A c \in Calls :
        calls[c].op \in CrudOps =>
            /\ HasRequest(c, "crud") =>
                   /\ calls[c].supported = Return(Bool(TRUE))
                   /\ \/ calls[c].fetch = "none" /\ calls[c].storedAtStart
                      \/ calls[c].fetch = "ok" /\ calls[c].config = calls[c].configBody
                   /\ calls[c].log[Len(calls[c].log)].kind = "crud"
            /\ \/ calls[c].fetch = "failed"
               \/ calls[c].supported \notin {NoOutcome, Return(Bool(TRUE))}
               => /\ calls[c].pc = "done"
                  /\ calls[c].outcome.kind = "throw"
                  /\ ~HasRequest(c, "crud")

C4_Witness ==
    \E c, d \in Calls :
        /\ calls[c].op \in CrudOps /\ calls[d].op \in CrudOps
        /\ calls[c].fetch = "ok" /\ HasRequest(c, "crud")
        /\ calls[d].supported = Return(Bool(FALSE)) /\ calls[d].pc = "done"

\* C5: a config fetch answered with an error value makes the call fail with
\* that very value after its one request; no step of such a call changes the
\* cache; the next call for the same namespace that needs the config starts a
\* new fetch.
C5_FailedFetch ==
    /\ [](\A c \in Calls :
            calls[c].fetch = "failed" =>
                /\ calls[c].pc = "done"
                /\ IsError(calls[c].configBody)
                /\ calls[c].outcome = Throw(calls[c].configBody)
                /\ Len(calls[c].log) = 1
                /\ calls[c].log[1].kind = "config"
                /\ NamespaceOf(c) \notin DOMAIN configs)
    /\ [][\A c \in Calls :
            calls'[c] # calls[c] /\ calls'[c].fetch \in {"pending", "failed"}
                => configs' = configs]_vars
    /\ [][\A c \in Calls :
            /\ calls[c].fetch = "failed"
            /\ calls'[c] # calls[c]
            /\ calls'[c].op # "createClient"
            /\ Instances[calls'[c].inst].apiClientFactory.apiNamespace = NamespaceOf(c)
            => /\ calls'[c].fetch = "pending"
               /\ calls'[c].log = <<ConfigRequest(Instances[calls'[c].inst].apiClientFactory)>>]_vars

C5_Witness ==
    \E c \in Calls :
        /\ calls[c].op = "getConfig"
        /\ calls[c].fetch = "failed"
        /\ calls[c].outcome = Throw(NetError)
        /\ configs # <<>>

\* C6: createVerifiedClient fails, when the version check gives false, with an
\* application-level error whose code is APP_VERSION_NOT_SUPPORTED, and returns
\* a client when the check gives true.
C6_CodedMismatchError ==
    \A c \in Calls :
        calls[c].op = "createVerifiedClient" /\ calls[c].pc = "done" =>
            /\ calls[c].supported = Return(Bool(FALSE)) =>
                   /\ calls[c].outcome.kind = "throw"
                   /\ IsError(calls[c].outcome.value)
                   /\ calls[c].outcome.value.code = Str("APP_VERSION_NOT_SUPPORTED")
            /\ calls[c].supported = Return(Bool(TRUE)) =>
                   /\ calls[c].outcome.kind = "return"
                   /\ calls[c].outcome.value.t = "HttpJsonClient"

\* the version_supported a document reports, Undefined when it reports none
ReportedVersion(config) ==
    IF config.t = "object" /\ K_version_supported \in DOMAIN config.f
    THEN config.f[K_version_supported]
    ELSE Undefined

\* C7: isVersionSupported resolves to true exactly when the document's
\* version_supported is strictly equal to requestedVersion; without a
\* requested version that is only when the document reports none, and a CRUD
\* call then fails with the version-mismatch error against every document
\* that reports one.
C7_StrictVersionCheck ==
    \A c \in Calls :
        calls[c].supported.kind = "return" =>
            LET requested == FactoryOf(c).requestedVersion
                reported  == ReportedVersion(calls[c].config)
            IN  /\ calls[c].supported.value.v
                       <=> (reported.t = requested.t /\ reported = requested)
                /\ requested = Undefined /\ calls[c].supported.value.v
                       => reported = Undefined
                /\ /\ requested = Undefined
                   /\ reported # Undefined
                   /\ calls[c].op \in CrudOps
                   => /\ calls[c].pc = "done"
                      /\ calls[c].outcome = Throw(VersionNotSupportedError)

C7_Witness ==
    \E c \in Calls :
        /\ calls[c].op \in CrudOps
        /\ FactoryOf(c).requestedVersion = Undefined
        /\ ReportedVersion(calls[c].config) = Null
        /\ calls[c].outcome = Throw(VersionNotSupportedError)

Kinds(log) == [k \in DOMAIN log |-> log[k].kind]

\* C8: a CRUD call issues at most one config fetch and then at most one CRUD
\* request; a successful call makes two round trips when no config was stored
\* at its start and one when one was, and a call that starts with a stored
\* config never fetches.
C8_RequestCount ==
    \A c \in Calls :
        calls[c].op \in CrudOps =>
            /\ Kinds(calls[c].log)
                   \in {<<>>, <<"config">>, <<"crud">>, <<"config", "crud">>}
            /\ calls[c].storedAtStart => Kinds(calls[c].log) \in {<<>>, <<"crud">>}
            /\ calls[c].pc = "done" /\ calls[c].outcome.kind = "return" =>
                   Kinds(calls[c].log) = IF calls[c].storedAtStart
                                         THEN <<"crud">>
                                         ELSE <<"config", "crud">>

C8_Witness ==
    \E c, d \in Calls :
        /\ calls[c].op \in CrudOps /\ calls[d].op \in CrudOps
        /\ calls[c].outcome.kind = "return" /\ calls[d].outcome.kind = "return"
        /\ Len(calls[c].log) = 2
        /\ calls[d].storedAtStart /\ Len(calls[d].log) = 1

\* C9: handleResponse re-throws an error body, fails with a CRUD_ERROR carrying
\* body.error.message when `error` is the body's only key, and returns every
\* other body unchanged, record or not.
C9_HandleResponse ==
    \A c \in Calls :
        /\ calls[c].op \in CrudOps \ {"isValid"}
        /\ calls[c].pc = "done"
        /\ HasRequest(c, "crud")
        => LET body == calls[c].crudBody
           IN  IF IsError(body) THEN calls[c].outcome = Throw(body)
               ELSE IF body.t = "object" /\ DOMAIN body.f = {K_error}
               THEN /\ calls[c].outcome.kind = "throw"
                    /\ calls[c].outcome.value.code = Str("CRUD_ERROR")
                    /\ calls[c].outcome.value.message
                           = GetProp(body.f[K_error], K_message)
               ELSE calls[c].outcome = Return(body)

\* the stored base URL of each instance, written out
ExpectedBaseUrl ==
    << <<"h","t","t","p",":","/","/","a","p","i",".","e","x","a","m","p","l","e",".","c","o","m","/">>,
       <<"h","t","t","p",":","/","/","x","/">>,
       <<"h","t","t","p",":","/","/","x","/">>,
       <<"h","t","t","p",":","/","/","x","/">> >>

ExpectedVerb ==
    [ create |-> "POST", execute |-> "POST", get |-> "GET",
      update |-> "PATCH", upsert |-> "PUT", isValid |-> "HEAD" ]

\* 'apis/pas/crud/{entity}/{sub-path segments}', segments as section 4.2 derives them
ExpectedPath(entity, segments) ==
    <<"a","p","i","s","/","p","a","s","/","c","r","u","d","/">> \o join([k \in DOMAIN (<<entity>> \o segments) |->
                        SnakeSegment((<<entity>> \o segments)[k])], <<"/">>)

\* C10: the CRUD request of a call has the verb of its operation, the URL
\* base + 'apis/pas/crud/{entity}/{sub-path segments}' and the caller's data;
\* get(['items'], {limit: 10}) on base 'http://api.example.com', entity 'order',
\* checks config at .../.well-known/pas-crud-api/config (when it fetches) and
\* then GETs .../apis/pas/crud/order/items with {limit: 10}.
C10_VerbAndTarget ==
    \A c \in Calls :
        calls[c].op \in CrudOps /\ HasRequest(c, "crud") =>
            LET call    == calls[c]
                request == call.log[Len(call.log)]
            IN  /\ request.method = ExpectedVerb[call.op]
                /\ request.url = ExpectedBaseUrl[call.inst]
                       \o ExpectedPath(Instances[call.inst].entity, call.subPath.a)
                /\ request.data = call.data
                /\ /\ call.inst = 1
                   /\ call.op = "get"
                   /\ call.subPath = ArrSubPath(<< <<"i","t","e","m","s">> >>)
                   /\ call.data = SomeData
                   => /\ request.method = "GET"
                      /\ request.url = <<"h","t","t","p",":","/","/","a","p","i",".","e","x","a","m","p","l","e",".","c","o","m","/","a","p","i","s","/","p","a","s","/","c","r","u","d","/","o","r","d","e","r","/","i","t","e","m","s">>
                      /\ request.data = Obj(K_limit :> Num(10))
                      /\ Len(call.log) = 2 =>
                             /\ call.log[1].method = "GET"
                             /\ call.log[1].url = <<"h","t","t","p",":","/","/","a","p","i",".","e","x","a","m","p","l","e",".","c","o","m","/",".","w","e","l","l","-","k","n","o","w","n","/","p","a","s","-","c","r","u","d","-","a","p","i","/","c","o","n","f","i","g">>

C10_Witness ==
    \E c \in Calls :
        /\ calls[c].inst = 1
        /\ calls[c].op = "get"
        /\ calls[c].subPath = ArrSubPath(<< <<"i","t","e","m","s">> >>)
        /\ calls[c].data = SomeData
        /\ Len(calls[c].log) = 2
        /\ calls[c].log[2].kind = "crud"

\* the percent-encoded namespace and the requested version of each instance,
\* written out
ExpectedNamespace ==
    << <<"c","r","u","d">>,
       <<"c","r","u","d">>,
       <<"a","%","2","F","b">>,
       <<"v","a","l","u","e","O","f">> >>

ExpectedVersion == << Undefined, Str("v1"), Str("v1"), Undefined >>

\* '{apiBaseUrl}.well-known/pas-{namespace}-api/config'
ExpectedConfigUrl(i) ==
    ExpectedBaseUrl[i]
        \o <<".","w","e","l","l","-","k","n","o","w","n","/","p","a","s","-">>
        \o ExpectedNamespace[i]
        \o <<"-","a","p","i","/","c","o","n","f","i","g">>

\* C11: a call that fetches sends its one config request to
\* {apiBaseUrl}.well-known/pas-{namespace}-api/config with a timeout of 5,
\* as a POST of {'{namespace}_version': requestedVersion} when a version was
\* supplied and as a GET without body otherwise; a non-error body is stored
\* under the namespace and is what getConfig() returns.
C11_ConfigFetchProtocol ==
    \A c \in Calls :
        calls[c].fetch # "none" =>
            LET call    == calls[c]
                i       == call.inst
                request == call.log[1]
            IN  /\ request.kind = "config"
                /\ request.url = ExpectedConfigUrl(i)
                /\ request.timeout = 5
                /\ IF ExpectedVersion[i] # Undefined
                   THEN /\ request.method = "POST"
                        /\ request.data.t = "object"
                        /\ DOMAIN request.data.f
                               = { ExpectedNamespace[i] \o <<"_","v","e","r","s","i","o","n">> }
                        /\ \A k \in DOMAIN request.data.f :
                               request.data.f[k] = ExpectedVersion[i]
                   ELSE /\ request.method = "GET"
                        /\ request.data = Undefined
                /\ call.fetch = "ok" =>
                       /\ ~IsError(call.configBody)
                       /\ ExpectedNamespace[i] \in DOMAIN configs
                       /\ configs[ExpectedNamespace[i]] = call.configBody
                       /\ call.op = "getConfig" /\ call.pc = "done" =>
                              call.outcome = Return(call.configBody)

C11_Witness ==
    \E c \in Calls :
        /\ calls[c].inst = 2
        /\ calls[c].op = "getConfig"
        /\ calls[c].fetch = "ok"
        /\ calls[c].pc = "done"
        /\ calls[c].log[1].method = "POST"
        /\ calls[c].log[1].timeout = 5
        /\ calls[c].outcome = Return(Obj(K_version_supported :> Str("v2")))

\* the index of the capital letter the underscore goes before, 0 when the
\* segment has no qualifying transition: the first place where a lower-case
\* letter, a digit or a capital is followed by a capital that is not the last
\* character; when it starts a run of capitals, the run counts as far as it
\* goes while a capital that is not the last character still follows it
TransitionAt(s) ==
    LET capital(i) == s[i] \in UpperSet
        starts == { i \in 1..(Len(s) - 2) :
                      /\ capital(i) \/ s[i] \in LowerOrDigitSet
                      /\ capital(i + 1) }
    IN  IF starts = {} THEN 0
        ELSE LET first == CHOOSE i \in starts : \A j \in starts : i <= j
             IN  IF ~capital(first) THEN first + 1
                 ELSE CHOOSE p \in (first + 1)..(Len(s) - 1) :
                          /\ \A j \in first..p : capital(j)
                          /\ \A r \in (p + 1)..(Len(s) - 1) :
                                 \E j \in first..r : ~capital(j)

ExpectedSegment(s) ==
    LET p == TransitionAt(s)
    IN  toLowerCase(IF p = 0 THEN s
                    ELSE SubSeq(s, 1, p - 1) \o <<"_">> \o SubSeq(s, p, Len(s)))

\* C12: the derived path is 'apis/pas/crud', then '/' and the entity (as the
\* instance stores it), then '/' and each sub-path segment in order, the
\* entity and each segment with one underscore at its first qualifying
\* transition and lowercased; 'UserAccount' with ['getProfile'] gives
\* 'apis/pas/crud/user_account/get_profile'.
C12_EndpointDerivation ==
    derivation.done =>
        LET segments == <<encodeURIComponent(derivation.entity)>> \o derivation.subPath.a
        IN  /\ derivation.endpoint =
                   <<"a","p","i","s","/","p","a","s","/","c","r","u","d">>
                       \o Flatten([k \in DOMAIN segments |->
                                      <<"/">> \o ExpectedSegment(segments[k])])
            /\ /\ derivation.entity = <<"U","s","e","r","A","c","c","o","u","n","t">>
               /\ derivation.subPath = ArrSubPath(<< <<"g","e","t","P","r","o","f","i","l","e">> >>)
               => derivation.endpoint = <<"a","p","i","s","/","p","a","s","/","c","r","u","d","/","u","s","e","r","_","a","c","c","o","u","n","t","/","g","e","t","_","p","r","o","f","i","l","e">>
            /\ /\ derivation.entity = <<"g","e","t","U","s","e","r","P","r","o","f","i","l","e">>
               /\ derivation.subPath = NoSubPath
               => derivation.endpoint = <<"a","p","i","s","/","p","a","s","/","c","r","u","d","/","g","e","t","_","u","s","e","r","p","r","o","f","i","l","e">>

C12_Witness ==
    /\ derivation.done
    /\ derivation.entity = <<"U","s","e","r","A","c","c","o","u","n","t">>
    /\ derivation.subPath = ArrSubPath(<< <<"H","T","T","P","S","e","r","v","e","r">>, <<"a","B">>, <<"g","e","t","U","s","e","r","P","r","o","f","i","l","e">> >>)
    /\ derivation.endpoint = <<"a","p","i","s","/","p","a","s","/","c","r","u","d","/","u","s","e","r","_","a","c","c","o","u","n","t","/","h","t","t","p","_","s","e","r","v","e","r","/","a","b","/","g","e","t","_","u","s","e","r","p","r","o","f","i","l","e">>

\* C13: when the body of the response to isValid is normalised without
\* failure (it is a record or an array and not a record whose only key is
\* `error`), the call returns the boolean `success` of a record that has one,
\* and every other body unchanged.
C13_IsValidResult ==
    \A c \in Calls :
        /\ calls[c].op = "isValid"
        /\ calls[c].pc = "done"
        /\ HasRequest(c, "crud")
        => LET body == calls[c].crudBody
               normalized == /\ body.t \in {"object", "array"}
                             /\ ~(body.t = "object" /\ DOMAIN body.f = {K_error})
           IN  normalized =>
                   IF /\ body.t = "object"
                      /\ K_success \in DOMAIN body.f
                      /\ body.f[K_success] \in {Bool(TRUE), Bool(FALSE)}
                   THEN calls[c].outcome = Return(body.f[K_success])
                   ELSE calls[c].outcome = Return(body)

C13_Witness ==
    \E c \in Calls :
        /\ calls[c].op = "isValid"
        /\ calls[c].crudBody = Obj(K_success :> Str("yes"))
        /\ calls[c].outcome = Return(Obj(K_success :> Str("yes")))

\* the paths given to createClient with at most one leading '/' removed,
\* written out
ExpectedStripped(p) ==
    CASE p = <<"/","f","o","o","/","b","a","r">> -> <<"f","o","o","/","b","a","r">>
      [] p = <<"f","o","o","/","b","a","r">> -> <<"f","o","o","/","b","a","r">>
      [] p = <<"/","/","f","o","o">> -> <<"/","f","o","o">>
      [] p = <<>> -> <<>>

\* C14: createClient(p) completes at once with a client, issues no request and
\* leaves the cache as it is; the client's URL is the stored base URL followed
\* by p less at most one leading '/'.  Bases 'http://x' and 'http://x/' are
\* both stored as 'http://x/', and '/foo/bar' and 'foo/bar' give one URL.
C14_CreateClient ==
    /\ [](\A c \in Calls :
            calls[c].op = "createClient" =>
                /\ calls[c].pc = "done"
                /\ calls[c].log = <<>>
                /\ calls[c].fetch = "none"
                /\ calls[c].outcome.kind = "return"
                /\ calls[c].outcome.value.t = "HttpJsonClient"
                /\ calls[c].outcome.value.url =
                       ExpectedBaseUrl[calls[c].inst]
                           \o ExpectedStripped(calls[c].endpointPath)
                /\ calls[c].endpointPath \in EndpointPaths =>
                       calls[c].outcome.value.url =
                           ExpectedBaseUrl[calls[c].inst] \o <<"f","o","o","/","b","a","r">>)
    /\ [](\A ns \in {CrudNamespace} :
            /\ ApiClientFactory(<<"h","t","t","p",":","/","/","x">>, ns, Undefined, Undefined).apiBaseUrl
                   = <<"h","t","t","p",":","/","/","x","/">>
            /\ ApiClientFactory(<<"h","t","t","p",":","/","/","x","/">>, ns, Undefined, Undefined).apiBaseUrl
                   = <<"h","t","t","p",":","/","/","x","/">>)
    /\ [][\A c \in Calls :
            calls'[c] # calls[c] /\ calls'[c].op = "createClient"
                => configs' = configs]_vars

C14_Witness ==
    \E c \in Calls :
        /\ calls[c].op = "createClient"
        /\ calls[c].inst = 3
        /\ calls[c].endpointPath = <<"/","f","o","o","/","b","a","r">>
        /\ calls[c].outcome.value.url = <<"h","t","t","p",":","/","/","x","/","f","o","o","/","b","a","r">>
        /\ configs # <<>>

\* C15: when a fetch completes with a body that is no error, the cache holds
\* that body under the namespace from then on until another fetch completes
\* (so after two racing fetches it holds the body of the one that completed
\* last), and the call continues with the value the cache holds at that
\* moment, which getConfig() returns; a fetch that fails leaves the cache as
\* it is, so of two racing fetches of which one failed the cache holds the
\* body of the other.
C15_RacingFirstAccess ==
    /\ [][\A c \in Calls :
            calls[c].fetch = "pending" /\ calls'[c].fetch = "ok" =>
                LET ns == ExpectedNamespace[calls[c].inst]
                IN  /\ ns \in DOMAIN configs'
                    /\ configs'[ns] = calls'[c].configBody
                    /\ calls'[c].config = configs'[ns]]_vars
    /\ [][configs' # configs =>
            \E c \in Calls : calls[c].fetch = "pending" /\ calls'[c].fetch = "ok"]_vars
    /\ [](\A c \in Calls :
            calls[c].op = "getConfig" /\ calls[c].fetch = "ok" /\ calls[c].pc = "done"
                => calls[c].outcome = Return(calls[c].config))
    /\ [](\A c, d \in Calls :
            /\ calls[c].fetch = "failed"
            /\ calls[d].fetch = "ok"
            /\ ExpectedNamespace[calls[c].inst] = ExpectedNamespace[calls[d].inst]
            /\ \A e \in Calls \ {d} :
                   calls[e].fetch = "ok" =>
                       ExpectedNamespace[calls[e].inst] # ExpectedNamespace[calls[d].inst]
            => configs[ExpectedNamespace[calls[d].inst]] = calls[d].configBody)

C15_Witness ==
    \E c, d \in Calls :
        /\ c # d
        /\ calls[c].op = "getConfig" /\ calls[d].op = "getConfig"
        /\ calls[c].inst = calls[d].inst
        /\ ~calls[c].storedAtStart /\ ~calls[d].storedAtStart
        /\ calls[c].pc = "done" /\ calls[d].pc = "done"
        /\ calls[c].outcome = Return(EmptyObj)
        /\ calls[d].outcome = Return(Obj(K_version_supported :> Str("v1")))
        /\ configs[CrudNamespace] = EmptyObj

\* C16: a step of a call for namespace N leaves the cache entries of every
\* other namespace as they are, and a call that starts with an entry stored
\* for N continues with that entry; whatever the calls for other namespaces
\* are doing, a call that awaits its config response can receive it, a
\* getConfig() that has its document can return it, and getConfig() fails only
\* with the error its own fetch was answered with.
C16_CrossNamespaceIndependence ==
    /\ [][\A c \in Calls :
            calls'[c] # calls[c] =>
                LET ns == ExpectedNamespace[calls'[c].inst]
                IN  /\ DOMAIN configs' \subseteq DOMAIN configs \cup {ns}
                    /\ \A n \in DOMAIN configs :
                           n # ns => n \in DOMAIN configs' /\ configs'[n] = configs[n]
                    /\ calls[c].pc = "idle" /\ ns \in DOMAIN configs =>
                           /\ calls'[c].config = configs[ns]
                           /\ calls'[c].fetch = "none"]_vars
    /\ [](\A d \in Calls :
            /\ calls[d].pc = "awaitConfig" =>
                   \A body \in ConfigBodies : ENABLED ConfigResponse(d, body)
            /\ calls[d].pc = "gotConfig" /\ calls[d].op = "getConfig" =>
                   ENABLED ResolveGetConfig(d)
            /\ calls[d].op = "getConfig" /\ calls[d].outcome.kind = "throw" =>
                   /\ calls[d].fetch = "failed"
                   /\ calls[d].outcome.value = calls[d].configBody)

C16_Witness ==
    \E c, d \in Calls :
        /\ c < d
        /\ calls[c].inst = 2 /\ calls[c].fetch = "pending"
        /\ calls[d].inst = 3 /\ calls[d].op = "getConfig"
        /\ calls[d].fetch = "ok" /\ calls[d].pc = "done"
        /\ calls[d].outcome = Return(EmptyObj)
        /\ DOMAIN configs = { <<"a","%","2","F","b">> }

\* C17: a call that starts after some call for the same encoded namespace, on
\* whichever instance, has stored its fetched document issues no fetch and
\* continues with a document fetched for that namespace; its version check
\* compares that document with the requested version of its own instance, and
\* the call is refused or served on its own base URL accordingly.
C17_CacheKeyedByNamespace ==
    /\ [][\A d \in Calls :
            /\ calls[d].pc = "idle"
            /\ calls'[d].pc # "idle"
            /\ \E c \in Calls :
                   /\ calls[c].fetch = "ok"
                   /\ ExpectedNamespace[calls[c].inst] = ExpectedNamespace[calls'[d].inst]
            => /\ calls'[d].fetch = "none"
               /\ calls'[d].log = <<>>
               /\ calls'[d].config = configs[ExpectedNamespace[calls'[d].inst]]
               /\ \E c \in Calls :
                      /\ calls[c].fetch = "ok"
                      /\ ExpectedNamespace[calls[c].inst] = ExpectedNamespace[calls'[d].inst]
                      /\ calls[c].configBody = calls'[d].config]_vars
    /\ [](\A d \in Calls :
            calls[d].storedAtStart /\ calls[d].supported # NoOutcome =>
                LET reported == ReportedVersion(calls[d].config)
                    requested == ExpectedVersion[calls[d].inst]
                    matches == reported.t = requested.t /\ reported = requested
                IN  /\ calls[d].supported = Return(Bool(matches))
                    /\ ~matches => calls[d].outcome = Throw(VersionNotSupportedError)
                    /\ matches /\ calls[d].op \in CrudOps =>
                           /\ HasRequest(d, "crud")
                           /\ SubSeq(calls[d].log[1].url, 1,
                                     Len(ExpectedBaseUrl[calls[d].inst]))
                                  = ExpectedBaseUrl[calls[d].inst])

C17_Witness ==
    \E c, d \in Calls :
        /\ calls[c].inst = 1 /\ calls[d].inst = 2
        /\ calls[c].fetch = "ok"
        /\ calls[c].configBody = Obj(K_version_supported :> Str("v1"))
        /\ calls[c].outcome = Throw(VersionNotSupportedError)
        /\ calls[d].storedAtStart /\ calls[d].fetch = "none"
        /\ calls[d].config = calls[c].configBody
        /\ calls[d].supported = Return(Bool(TRUE))
        /\ HasRequest(d, "crud")

\* C18: a CRUD operation given the caller-owned array leaves the array's
\* elements as they were, and two operations of one CrudClient given that
\* array one after the other derive the same endpoint path.
C18_DerivationLeavesInputUnchanged ==
    /\ [][\A c \in Calls :
            /\ calls[c].pc \in {"idle", "done"}
            /\ calls'[c].pc \notin {"idle", "done"}
            /\ calls'[c].ownedArg
            => owned' = owned]_vars
    /\ [][\A c \in Calls :
            /\ calls[c].pc = "done"
            /\ calls'[c].pc # "done"
            /\ calls[c].ownedArg /\ calls'[c].ownedArg
            /\ calls[c].inst = calls'[c].inst
            => calls'[c].endpointPath = calls[c].endpointPath]_vars

\* a body some call fetched for namespace ns without error
FetchedFor(ns, body) ==
    \E d \in Calls :
        /\ calls[d].fetch = "ok"
        /\ ExpectedNamespace[calls[d].inst] = ns
        /\ calls[d].configBody = body

\* C19: every entry of the cache, and every document a call is handed by the
\* cache for its namespace, is the body of a completed fetch for that
\* namespace and no error value; only the completion of a fetch with such a
\* body changes the cache.
C19_CacheProvenance ==
    /\ [](\A ns \in DOMAIN configs :
            ~IsError(configs[ns]) /\ FetchedFor(ns, configs[ns]))
    /\ [](\A c \in Calls :
            calls[c].pc \in {"gotConfig", "awaitCrud", "done"}
                /\ calls[c].op # "createClient" /\ calls[c].fetch # "failed"
            => /\ ~IsError(calls[c].config)
               /\ FetchedFor(ExpectedNamespace[calls[c].inst], calls[c].config))
    /\ [][configs' # configs =>
            \E c \in Calls :
                /\ calls[c].fetch = "pending" /\ calls'[c].fetch = "ok"
                /\ ~IsError(calls'[c].configBody)]_vars

\* C20: with a transport that answers every request, every call that was made
\* completes with a value or an error; until then it can always take its next
\* step, whatever the other calls are doing; and it issues no request twice
\* (at most one config request, then at most one CRUD request).
C20_Termination ==
    /\ \A c \in Calls :
           (calls[c].pc # "idle")
               ~> (calls[c].pc = "done" /\ calls[c].outcome.kind \in {"return", "throw"})
    /\ [](\A c \in Calls :
            /\ calls[c].pc \notin {"idle", "done"} => ENABLED Progress(c)
            /\ Kinds(calls[c].log)
                   \in {<<>>, <<"config">>, <<"crud">>, <<"config", "crud">>})

C20_Witness ==
    \E c, d \in Calls :
        /\ d < c
        /\ calls[d].pc = "awaitConfig"
        /\ calls[c].pc = "done"
        /\ calls[c].op \in CrudOps
        /\ calls[c].outcome.kind = "return"
        /\ Len(calls[c].log) = 2

====
